---- MODULE Spec2Model ----
(***************************************************************************)
(* Model of hft_mm_bot.py: the MarketMaker order book (process_snapshot,   *)
(* process_update, apply_changes), the per-message body of                 *)
(* handle_messages and the reconnect loop of run_bot.                      *)
(*                                                                         *)
(* Numbers.  Prices and quantities are the floats that float() yields for  *)
(* the wire tokens; the tokens used here all denote small integers.  Best  *)
(* prices are even, so mid = (best_bid + best_ask) / 2 is an integer.      *)
(* Spreads are counted in units of 1/3000000 and volatilities in units of  *)
(* 1/3000, so 0.003 * volatility is 3 * volatility in spread units and the *)
(* volatility 2/3, whose spread is 0.002, is a whole number of units.      *)
(***************************************************************************)
EXTENDS Integers, Sequences, FiniteSets, TLC

VARIABLES
    pc,              \* position of run_bot / handle_messages
    spread,          \* mm.spread
    mid_prices,      \* mm.mid_prices
    bids,            \* mm.bids : list of [price, qty]
    asks,            \* mm.asks
    last_update_id,  \* mm.last_update_id (None before the snapshot)
    first_processed, \* mm.first_processed
    msg,             \* the message the stream iterator has just yielded
    outcome,         \* what the last step logged or raised
    err,             \* payload of the gap error: <<last_update_id, U>>
    quote,           \* quote logged by the last loop body (0 or 1 records)
    torn             \* history: a diff was abandoned half way on this mm

vars == <<pc, spread, mid_prices, bids, asks, last_update_id,
          first_processed, msg, outcome, err, quote, torn>>

mmVars == <<spread, mid_prices, bids, asks, last_update_id, first_processed>>

(***************************************************************************)
(* Configuration constants (spread units of 1/3000000).                    *)
(***************************************************************************)
INITIAL_SPREAD == 6000
MIN_SPREAD == 3000
MAX_SPREAD == 30000
\* len(mm.mid_prices) > 20 and mm.mid_prices[-20:]
VOL_WINDOW == 20
\* 0.003 * volatility, with volatility in units of 1/3000
SpreadFactor == 3

\* last_update_id = None
None == -1

(***************************************************************************)
(* Bounds of the model.                                                    *)
(***************************************************************************)
MaxSeq == 4          \* update ids U, u range over 1..MaxSeq
MaxSnapSeq == 1      \* snapshot lastUpdateId ranges over 1..MaxSnapSeq
MaxMids == 2         \* Spec stops receiving once this many mids are stored
QuoteMaxMids == 22   \* SpecQuote stops receiving once this many are stored

Max(a, b) == IF a >= b THEN a ELSE b
Min(a, b) == IF a <= b THEN a ELSE b

(***************************************************************************)
(* float(): wire tokens to numbers.  "2" and "2.0" are the same float;     *)
(* "abc" raises ValueError; JSON null (None) raises TypeError.             *)
(***************************************************************************)
FloatExc(tok) ==
    CASE tok = "abc"  -> "ValueError"
      [] tok = "null" -> "TypeError"
      [] OTHER        -> "none"

FloatVal(tok) ==
    CASE tok = "0"   -> 0
      [] tok = "0.0" -> 0
      [] tok = "1"   -> 1
      [] tok = "2"   -> 2
      [] tok = "2.0" -> 2
      [] tok = "3"   -> 3
      [] tok = "4"   -> 4
      [] tok = "4.0" -> 4
      [] tok = "6"   -> 6
      [] OTHER       -> 0

(***************************************************************************)
(* list.sort() / sorted() on [price, qty] lists: lexicographic order.      *)
(***************************************************************************)
LevelLeq(x, y) == x[1] < y[1] \/ (x[1] = y[1] /\ x[2] <= y[2])

RECURSIVE InsertAsc(_, _)
InsertAsc(x, s) ==
    IF s = <<>> THEN <<x>>
    ELSE IF LevelLeq(x, Head(s)) THEN <<x>> \o s
    ELSE <<Head(s)>> \o InsertAsc(x, Tail(s))

RECURSIVE SortAsc(_)
SortAsc(s) == IF s = <<>> THEN <<>> ELSE InsertAsc(Head(s), SortAsc(Tail(s)))

Reverse(s) == [i \in 1..Len(s) |-> s[Len(s) + 1 - i]]

SortDesc(s) == Reverse(SortAsc(s))

SortSide(s, side) == IF side = "bids" THEN SortDesc(s) ELSE SortAsc(s)

(***************************************************************************)
(* apply_changes: one side's loop.                                         *)
(***************************************************************************)
\* self.bids = [b for b in self.bids if b[0] != price]
RemovePrice(levels, price) == SelectSeq(levels, LAMBDA l : l[1] # price)

HasPrice(levels, price) == \E i \in 1..Len(levels) : levels[i][1] = price

FirstIndex(levels, price) ==
    CHOOSE i \in 1..Len(levels) :
        /\ levels[i][1] = price
        /\ \A j \in 1..(i - 1) : levels[j][1] # price

\* existing = next(...); existing[1] = qty   or   append([price, qty])
Upsert(levels, price, qty) ==
    IF HasPrice(levels, price)
    THEN [levels EXCEPT ![FirstIndex(levels, price)] = <<price, qty>>]
    ELSE Append(levels, <<price, qty>>)

\* "for price, qty in ..." then "price, qty = float(price), float(qty)"
EntryExc(entry) ==
    IF Len(entry) # 2 THEN "ValueError"
    ELSE IF FloatExc(entry[1]) # "none" THEN FloatExc(entry[1])
    ELSE FloatExc(entry[2])

\* if qty == 0: remove the price, else: update or append
ApplyLevel(levels, price, qty) ==
    IF qty = 0 THEN RemovePrice(levels, price)
    ELSE Upsert(levels, price, qty)

ApplyEntry(levels, entry) ==
    ApplyLevel(levels, FloatVal(entry[1]), FloatVal(entry[2]))

\* the for loop; it stops at the first entry that raises
RECURSIVE ApplyLoop(_, _)
ApplyLoop(levels, changes) ==
    IF changes = <<>> THEN [levels |-> levels, exc |-> "none"]
    ELSE IF EntryExc(Head(changes)) # "none"
         THEN [levels |-> levels, exc |-> EntryExc(Head(changes))]
         ELSE ApplyLoop(ApplyEntry(levels, Head(changes)), Tail(changes))

\* self.bids.sort(reverse=True) / self.asks.sort(), reached if the loop ended
SortAfterLoop(r, side) ==
    IF r.exc = "none"
    THEN [levels |-> SortSide(r.levels, side), exc |-> "none"]
    ELSE r

ApplySide(levels, changes, side) == SortAfterLoop(ApplyLoop(levels, changes), side)

\* apply_changes(data): bids first, then asks; data['b'], data['a'] may be
\* missing (KeyError)
AfterAsks(bs, ra) == [bids |-> bs, asks |-> ra.levels, exc |-> ra.exc]

AfterBids(rb, as, data) ==
    IF rb.exc # "none" THEN [bids |-> rb.levels, asks |-> as, exc |-> rb.exc]
    ELSE IF "a" \notin data.keys
    THEN [bids |-> rb.levels, asks |-> as, exc |-> "KeyError"]
    ELSE AfterAsks(rb.levels, ApplySide(as, data.a, "asks"))

apply_changes(bs, as, data) ==
    IF "b" \notin data.keys THEN [bids |-> bs, asks |-> as, exc |-> "KeyError"]
    ELSE AfterBids(ApplySide(bs, data.b, "bids"), as, data)

(***************************************************************************)
(* process_update.  Result: the mm fields it owns, the exception that      *)
(* left it (none / Gap / ValueError / TypeError / KeyError) and the branch *)
(* taken.                                                                  *)
(***************************************************************************)
UpdResult(bs, as, last, fp, exc, branch) ==
    [bids |-> bs, asks |-> as, last |-> last, fp |-> fp,
     exc |-> exc, branch |-> branch]

\* first update: last_update_id = data['u'] and first_processed = True are
\* set before apply_changes runs, so they stay set if it raises
FirstApplied(r, data) ==
    UpdResult(r.bids, r.asks, data.u, TRUE, r.exc,
              IF r.exc = "none" THEN "first" ELSE "error")

\* FirstUpdate with the range test one off: data['U'] <= last_update_id
FirstUpdate_OffByOne(bs, as, last, data) ==
    IF "U" \notin data.keys THEN UpdResult(bs, as, last, FALSE, "KeyError", "error")
    ELSE IF ~(data.U <= last) THEN UpdResult(bs, as, last, FALSE, "none", "dropped")
    ELSE IF "u" \notin data.keys THEN UpdResult(bs, as, last, FALSE, "KeyError", "error")
    ELSE IF ~(data.u >= last + 1) THEN UpdResult(bs, as, last, FALSE, "none", "dropped")
    ELSE FirstApplied(apply_changes(bs, as, data), data)

FirstUpdate(bs, as, last, data) ==
    IF "U" \notin data.keys THEN UpdResult(bs, as, last, FALSE, "KeyError", "error")
    ELSE IF ~(data.U <= last + 1) THEN UpdResult(bs, as, last, FALSE, "none", "dropped")
    ELSE IF "u" \notin data.keys THEN UpdResult(bs, as, last, FALSE, "KeyError", "error")
    ELSE IF ~(data.u >= last + 1) THEN UpdResult(bs, as, last, FALSE, "none", "dropped")
    ELSE FirstApplied(apply_changes(bs, as, data), data)

\* LaterApplied that moves the cursor to data['U'] instead of data['u']
LaterApplied_CursorAtU(r, last, data) ==
    IF r.exc = "none"
    THEN UpdResult(r.bids, r.asks, data.U, TRUE, "none", "applied")
    ELSE UpdResult(r.bids, r.asks, last, TRUE, r.exc, "error")

\* later updates: apply_changes runs first, last_update_id = data['u'] only
\* if it returned
LaterApplied(r, last, data) ==
    IF r.exc = "none"
    THEN UpdResult(r.bids, r.asks, data.u, TRUE, "none", "applied")
    ELSE UpdResult(r.bids, r.asks, last, TRUE, r.exc, "error")

\* LaterUpdate without the else branch: a gap is passed over like a stale diff
LaterUpdate_GapIgnored(bs, as, last, data) ==
    IF "U" \notin data.keys THEN UpdResult(bs, as, last, TRUE, "KeyError", "error")
    ELSE IF ~(data.U <= last + 1) THEN UpdResult(bs, as, last, TRUE, "none", "stale")
    ELSE IF "u" \notin data.keys THEN UpdResult(bs, as, last, TRUE, "KeyError", "error")
    ELSE IF ~(data.u >= last + 1) THEN UpdResult(bs, as, last, TRUE, "none", "stale")
    ELSE LaterApplied(apply_changes(bs, as, data), last, data)

LaterUpdate(bs, as, last, data) ==
    IF "U" \notin data.keys THEN UpdResult(bs, as, last, TRUE, "KeyError", "error")
    ELSE IF ~(data.U <= last + 1) THEN UpdResult(bs, as, last, TRUE, "Gap", "gap")
    ELSE IF "u" \notin data.keys THEN UpdResult(bs, as, last, TRUE, "KeyError", "error")
    ELSE IF ~(data.u >= last + 1) THEN UpdResult(bs, as, last, TRUE, "none", "stale")
    ELSE LaterApplied(apply_changes(bs, as, data), last, data)

\* process_update that awaits a first diff again after a stale one
process_update_StaleUnsyncs(bs, as, last, fp, data) ==
    IF ~fp THEN FirstUpdate(bs, as, last, data)
    ELSE LET r == LaterUpdate(bs, as, last, data)
         IN  [r EXCEPT !.fp = (r.branch # "stale")]

process_update(bs, as, last, fp, data) ==
    IF ~fp THEN FirstUpdate(bs, as, last, data)
    ELSE LaterUpdate(bs, as, last, data)

(***************************************************************************)
(* process_snapshot: each side is converted and sorted in one expression,  *)
(* bids first; a token that float() rejects leaves the side unassigned.    *)
(***************************************************************************)
ConsLevel(entry, rest) ==
    IF rest.exc # "none" THEN rest
    ELSE [levels |-> << <<FloatVal(entry[1]), FloatVal(entry[2])>> >> \o rest.levels,
          exc |-> "none"]

\* [[float(p), float(q)] for p, q in ...]
RECURSIVE ConvertLevels(_)
ConvertLevels(raw) ==
    IF raw = <<>> THEN [levels |-> <<>>, exc |-> "none"]
    ELSE IF EntryExc(Head(raw)) # "none"
         THEN [levels |-> <<>>, exc |-> EntryExc(Head(raw))]
         ELSE ConsLevel(Head(raw), ConvertLevels(Tail(raw)))

SnapshotSides(rb, ra, bs, as, last, data) ==
    IF rb.exc # "none"
    THEN [bids |-> bs, asks |-> as, last |-> last, exc |-> rb.exc]
    ELSE IF ra.exc # "none"
    THEN [bids |-> SortDesc(rb.levels), asks |-> as, last |-> last, exc |-> ra.exc]
    ELSE [bids |-> SortDesc(rb.levels), asks |-> SortAsc(ra.levels),
          last |-> data.lastUpdateId, exc |-> "none"]

process_snapshot(bs, as, last, data) ==
    SnapshotSides(ConvertLevels(data.bids), ConvertLevels(data.asks), bs, as, last, data)

(***************************************************************************)
(* update_spread and the quote of handle_messages.                         *)
(***************************************************************************)
\* update_spread without the lower clamp
update_spread_NoFloor(volatility) ==
    Min(MAX_SPREAD, SpreadFactor * volatility)

update_spread(volatility) ==
    Max(MIN_SPREAD, Min(MAX_SPREAD, SpreadFactor * volatility))

\* VolAvailable with >= in place of >
VolAvailable_AtWindow(mids) == Len(mids) >= VOL_WINDOW

\* if len(mm.mid_prices) > 20
VolAvailable(mids) == Len(mids) > VOL_WINDOW

\* mm.mid_prices[-20:]
LastWindow(mids) ==
    IF Len(mids) <= VOL_WINDOW THEN mids
    ELSE SubSeq(mids, Len(mids) - VOL_WINDOW + 1, Len(mids))

\* np.std of the returns of the smoothed window: a non-negative float whose
\* value is not computed here; a constant window has no dispersion.
\* Sampled: 0, 2/3 (spread 0.002), 1 (spread 0.003), 4 (above MAX_SPREAD).
VolValues == {0, 2000, 3000, 12000}

VolOutcomes(window) ==
    IF \A i \in 1..Len(window) : window[i] = window[1] THEN {0} ELSE VolValues

\* mid is (best_bid + best_ask) / 2; our_bid and our_ask are kept as
\* numerators over 6e6: mid * (1 -/+ spread / 2)
Mid(bs, as) == (bs[1][1] + as[1][1]) \div 2

Quote(bs, as, sp) ==
    [best_bid |-> bs[1][1], best_ask |-> as[1][1], mid |-> Mid(bs, as),
     spread |-> sp,
     our_bid |-> Mid(bs, as) * (6000000 - sp),
     our_ask |-> Mid(bs, as) * (6000000 + sp)]

(***************************************************************************)
(* Inputs: what the exchange may send.                                     *)
(***************************************************************************)
AllKeys == {"U", "u", "b", "a"}

NoMsg == [e |-> "none", keys |-> {}, U |-> 0, u |-> 0, b |-> <<>>, a |-> <<>>]

NotJson == [e |-> "notjson", keys |-> {}, U |-> 0, u |-> 0, b |-> <<>>, a |-> <<>>]

OtherEvent == [e |-> "other", keys |-> {}, U |-> 0, u |-> 0, b |-> <<>>, a |-> <<>>]

Diff(U, u, b, a) ==
    [e |-> "depthUpdate", keys |-> AllKeys, U |-> U, u |-> u, b |-> b, a |-> a]

SeqPairs == {p \in (1..MaxSeq) \X (1..MaxSeq) : p[1] <= p[2]}

\* well-formed change lists: add, update, remove, nothing
GoodBidChanges ==
    { <<>>,
      << <<"2", "1">> >>, << <<"2", "3">> >>, << <<"2", "0.0">> >>,
      << <<"4.0", "1">> >> }

GoodAskChanges ==
    { << <<"4.0", "1">> >>, << <<"4.0", "0">> >>, << <<"2", "1">> >> }

\* change lists that stop half way: a non-numeric token, a null, a level
\* that is not a pair
BadChanges ==
    { << <<"4.0", "3">>, <<"abc", "1">> >>,
      << <<"4.0", "3">>, <<"2", "null">> >>,
      << <<"2">> >> }

IsGoodList(l) == \A i \in 1..Len(l) : EntryExc(l[i]) = "none"

WellFormed(m) ==
    /\ m.e = "depthUpdate"
    /\ m.keys = AllKeys
    /\ IsGoodList(m.b)
    /\ IsGoodList(m.a)

Payloads ==
    {[b |-> l, a |-> <<>>] : l \in GoodBidChanges \cup BadChanges}
    \cup {[b |-> <<>>, a |-> l] : l \in GoodAskChanges}
    \cup {[b |-> << <<"2", "3">> >>, a |-> << <<"4.0", "null">> >>]}

Messages ==
    {Diff(p[1], p[2], c.b, c.a) : p \in SeqPairs, c \in Payloads}
    \cup {[Diff(p[1], p[2], << <<"2", "3">> >>, <<>>) EXCEPT !.keys = AllKeys \ {"a"}] :
             p \in SeqPairs}
    \cup {[Diff(1, 1, <<>>, <<>>) EXCEPT !.keys = AllKeys \ {"U"}]}
    \cup {NotJson, OtherEvent}

SnapBids ==
    { <<>>,
      << <<"2.0", "1">>, <<"4", "1">> >>,
      << <<"2.0", "1">>, <<"2", "3">> >>,
      << <<"4", "0">> >>,
      << <<"abc", "1">> >> }

SnapAsks ==
    { <<>>,
      << <<"4", "1">> >>,
      << <<"4", "1">>, <<"4.0", "3">> >>,
      << <<"4", "null">> >> }

\* a quiet market for long runs: one level a side, few changes
QuoteSnapshots ==
    {[bids |-> << <<"2.0", "1">> >>, asks |-> << <<"4", "1">> >>, lastUpdateId |-> id] :
        id \in 1..MaxSnapSeq}

QuotePayloads ==
    { [b |-> <<>>, a |-> <<>>],
      [b |-> <<>>, a |-> << <<"2", "1">> >>],
      [b |-> <<>>, a |-> << <<"4.0", "0">> >>] }

QuoteMessages ==
    {Diff(p[1], p[2], c.b, c.a) : p \in SeqPairs, c \in QuotePayloads}
    \cup {[Diff(1, 1, <<>>, <<>>) EXCEPT !.keys = AllKeys \ {"U"}]}
    \cup {NotJson}

Snapshots ==
    {[bids |-> bl, asks |-> al, lastUpdateId |-> id] :
        bl \in SnapBids, al \in SnapAsks, id \in 1..MaxSnapSeq}

(***************************************************************************)
(* run_bot.                                                                *)
(***************************************************************************)
Init ==
    /\ pc = "loop"
    /\ spread = INITIAL_SPREAD
    /\ mid_prices = <<>>
    /\ bids = <<>>
    /\ asks = <<>>
    /\ last_update_id = None
    /\ first_processed = FALSE
    /\ msg = NoMsg
    /\ outcome = "none"
    /\ err = <<>>
    /\ quote = <<>>
    /\ torn = FALSE

\* a MarketMaker whose mid_prices list is shared by all instances
NewAttempt_SharedMids ==
    /\ pc = "loop"
    /\ pc' = "fetch"
    /\ spread' = INITIAL_SPREAD
    /\ bids' = <<>>
    /\ asks' = <<>>
    /\ last_update_id' = None
    /\ first_processed' = FALSE
    /\ torn' = FALSE
    /\ UNCHANGED <<mid_prices, msg, outcome, err, quote>>

\* mm = MarketMaker()
NewAttempt ==
    /\ pc = "loop"
    /\ pc' = "fetch"
    /\ spread' = INITIAL_SPREAD
    /\ mid_prices' = <<>>
    /\ bids' = <<>>
    /\ asks' = <<>>
    /\ last_update_id' = None
    /\ first_processed' = FALSE
    /\ torn' = FALSE
    /\ UNCHANGED <<msg, outcome, err, quote>>

\* response.status == 200: mm.process_snapshot(snapshot_data)
FetchSnapshot(data) ==
    /\ pc = "fetch"
    /\ \E r \in {process_snapshot(bids, asks, last_update_id, data)} :
           /\ bids' = r.bids
           /\ asks' = r.asks
           /\ last_update_id' = r.last
           /\ pc' = CASE r.exc = "none" -> "connect"
                      [] r.exc = "ValueError" -> "sleep2"
                      [] OTHER -> "sleep5"
           /\ outcome' = IF r.exc = "none" THEN "snapshot" ELSE "snapshot_error"
    /\ err' = <<>>
    /\ quote' = <<>>
    /\ UNCHANGED <<spread, mid_prices, first_processed, msg, torn>>

\* response.status != 200, or the request itself fails
FetchFails ==
    /\ pc = "fetch"
    /\ pc' = "sleep5"
    /\ outcome' = "fetch_failed"
    /\ err' = <<>>
    /\ quote' = <<>>
    /\ UNCHANGED <<mmVars, msg, torn>>

\* websockets.connect, SUBSCRIBE, the subscription response is consumed
Connect ==
    /\ pc = "connect"
    /\ pc' = "stream"
    /\ outcome' = "connected"
    /\ UNCHANGED <<mmVars, msg, err, quote, torn>>

\* connect or handshake fails: ConnectionClosed or another exception
ConnectFails ==
    /\ pc = "connect"
    /\ \E next \in {"sleep2", "sleep5"} : pc' = next
    /\ outcome' = "connect_failed"
    /\ UNCHANGED <<mmVars, msg, err, quote, torn>>

\* async for message in ws: the next message
Receive(m, cap) ==
    /\ pc = "stream"
    /\ Len(mid_prices) < cap
    /\ pc' = "handle"
    /\ msg' = m
    /\ outcome' = "none"
    /\ err' = <<>>
    /\ quote' = <<>>
    /\ UNCHANGED <<mmVars, torn>>

\* the iterator raises ConnectionClosed
StreamClosed ==
    /\ pc = "stream"
    /\ pc' = "sleep2"
    /\ outcome' = "closed"
    /\ UNCHANGED <<mmVars, msg, err, quote, torn>>

\* the iterator ends on a normal close: handle_messages returns and the
\* while loop goes round without sleeping
StreamEnds ==
    /\ pc = "stream"
    /\ pc' = "loop"
    /\ outcome' = "ended"
    /\ UNCHANGED <<mmVars, msg, err, quote, torn>>

\* a supervisor that leaves its loop after the sleep instead of going round
Backoff_GivesUp ==
    /\ pc \in {"sleep2", "sleep5"}
    /\ pc' = "stopped"
    /\ UNCHANGED <<mmVars, msg, outcome, err, quote, torn>>

\* await asyncio.sleep(2) / asyncio.sleep(5)
Backoff ==
    /\ pc \in {"sleep2", "sleep5"}
    /\ pc' = "loop"
    /\ UNCHANGED <<mmVars, msg, outcome, err, quote, torn>>

(***************************************************************************)
(* handle_messages: the body of the loop for one message.                  *)
(***************************************************************************)
\* json.JSONDecodeError is logged; a message that is no depthUpdate is passed
SkipMessage ==
    /\ pc = "handle"
    /\ msg.e # "depthUpdate"
    /\ pc' = "stream"
    /\ msg' = NoMsg
    /\ outcome' = IF msg.e = "notjson" THEN "notjson" ELSE "ignored"
    /\ err' = <<>>
    /\ quote' = <<>>
    /\ UNCHANGED <<mmVars, torn>>

\* mm.process_update(data) raised
UpdateRaises ==
    /\ pc = "handle"
    /\ msg.e = "depthUpdate"
    /\ \E r \in {process_update(bids, asks, last_update_id, first_processed, msg)} :
           /\ r.exc # "none"
           /\ bids' = r.bids
           /\ asks' = r.asks
           /\ last_update_id' = r.last
           /\ first_processed' = r.fp
           \* ValueError is re-raised to run_bot, anything else is logged
           /\ pc' = IF r.exc \in {"Gap", "ValueError"} THEN "sleep2" ELSE "stream"
           /\ outcome' = CASE r.exc = "Gap" -> "gap"
                           [] r.exc = "ValueError" -> "valueerror"
                           [] OTHER -> "logged"
           /\ err' = IF r.exc = "Gap" THEN <<last_update_id, msg.U>> ELSE <<>>
           /\ torn' = (torn \/ <<r.bids, r.asks, r.last, r.fp>>
                                  # <<bids, asks, last_update_id, first_processed>>)
    /\ msg' = NoMsg
    /\ quote' = <<>>
    /\ UNCHANGED <<spread, mid_prices>>

\* UpdateReturns that quotes with the spread it had before this message
UpdateReturns_StaleSpread ==
    /\ pc = "handle"
    /\ msg.e = "depthUpdate"
    /\ \E r \in {process_update(bids, asks, last_update_id, first_processed, msg)} :
           /\ r.exc = "none"
           /\ bids' = r.bids
           /\ asks' = r.asks
           /\ last_update_id' = r.last
           /\ first_processed' = r.fp
           /\ outcome' = r.branch
           /\ IF r.bids # <<>> /\ r.asks # <<>> /\ r.fp
              THEN /\ mid_prices' = Append(mid_prices, Mid(r.bids, r.asks))
                   /\ IF VolAvailable(mid_prices')
                      THEN \E vol \in VolOutcomes(LastWindow(mid_prices')) :
                              /\ spread' = update_spread(vol)
                              /\ quote' = <<Quote(r.bids, r.asks, spread)>>
                      ELSE /\ spread' = spread
                           /\ quote' = <<>>
              ELSE /\ mid_prices' = mid_prices
                   /\ spread' = spread
                   /\ quote' = <<>>
    /\ pc' = "stream"
    /\ msg' = NoMsg
    /\ err' = <<>>
    /\ UNCHANGED torn

\* mm.process_update(data) returned: mid price, volatility, quote
UpdateReturns ==
    /\ pc = "handle"
    /\ msg.e = "depthUpdate"
    /\ \E r \in {process_update(bids, asks, last_update_id, first_processed, msg)} :
           /\ r.exc = "none"
           /\ bids' = r.bids
           /\ asks' = r.asks
           /\ last_update_id' = r.last
           /\ first_processed' = r.fp
           /\ outcome' = r.branch
           /\ IF r.bids # <<>> /\ r.asks # <<>> /\ r.fp
              THEN /\ mid_prices' = Append(mid_prices, Mid(r.bids, r.asks))
                   /\ IF VolAvailable(mid_prices')
                      THEN \E vol \in VolOutcomes(LastWindow(mid_prices')) :
                              /\ spread' = update_spread(vol)
                              /\ quote' = <<Quote(r.bids, r.asks, spread')>>
                      ELSE /\ spread' = spread
                           /\ quote' = <<>>
              ELSE /\ mid_prices' = mid_prices
                   /\ spread' = spread
                   /\ quote' = <<>>
    /\ pc' = "stream"
    /\ msg' = NoMsg
    /\ err' = <<>>
    /\ UNCHANGED torn

Next ==
    \/ NewAttempt
    \/ \E data \in Snapshots : FetchSnapshot(data)
    \/ FetchFails
    \/ Connect
    \/ ConnectFails
    \/ \E m \in Messages : Receive(m, MaxMids)
    \/ StreamClosed
    \/ StreamEnds
    \/ Backoff
    \/ SkipMessage
    \/ UpdateRaises
    \/ UpdateReturns

Spec == Init /\ [][Next]_vars

\* the same program on a quiet market, followed for more than VOL_WINDOW mids
NextQuote ==
    \/ NewAttempt
    \/ \E data \in QuoteSnapshots : FetchSnapshot(data)
    \/ FetchFails
    \/ Connect
    \/ ConnectFails
    \/ \E m \in QuoteMessages : Receive(m, QuoteMaxMids)
    \/ StreamClosed
    \/ StreamEnds
    \/ Backoff
    \/ SkipMessage
    \/ UpdateRaises
    \/ UpdateReturns

SpecQuote == Init /\ [][NextQuote]_vars

\* a caller that hands the streaming MarketMaker a second snapshot:
\* mm.process_snapshot(data) on a book that already has one
Resnapshot(data) ==
    /\ pc = "stream"
    /\ \E r \in {process_snapshot(bids, asks, last_update_id, data)} :
           /\ bids' = r.bids
           /\ asks' = r.asks
           /\ last_update_id' = r.last
    /\ outcome' = "resnapshot"
    /\ UNCHANGED <<pc, spread, mid_prices, first_processed, msg, err, quote, torn>>

ApiSnapshots ==
    {[bids |-> bl, asks |-> << <<"4", "1">> >>, lastUpdateId |-> id] :
        bl \in {<<>>, << <<"2.0", "1">> >>, << <<"4", "3">> >>}, id \in 1..MaxSeq}

\* the MarketMaker under a caller that may call process_snapshot at any time
NextApi ==
    \/ NewAttempt
    \/ \E data \in ApiSnapshots : FetchSnapshot(data)
    \/ FetchFails
    \/ Connect
    \/ ConnectFails
    \/ \E m \in QuoteMessages : Receive(m, MaxMids)
    \/ StreamClosed
    \/ StreamEnds
    \/ Backoff
    \/ SkipMessage
    \/ UpdateRaises
    \/ UpdateReturns
    \/ \E data \in ApiSnapshots : Resnapshot(data)

SpecApi == Init /\ [][NextApi]_vars

\* a market whose snapshot may name a price twice, and diffs whose change
\* lists carry up to two entries: add, update, remove, remove an absent price
BookSnapshots ==
    {[bids |-> bl, asks |-> al, lastUpdateId |-> 1] :
        bl \in {<<>>, << <<"2.0", "1">> >>, << <<"2.0", "3">>, <<"2", "2">> >>},
        al \in {<< <<"4", "1">> >>, << <<"4", "1">>, <<"4.0", "3">> >>}}

BookEntries ==
    {<<"2", "1">>, <<"2", "3">>, <<"2", "0">>, <<"4.0", "3">>, <<"6", "0">>}

BookBidChanges ==
    {<<>>} \cup {<<e>> : e \in BookEntries}
           \cup {<<e, f>> : e \in BookEntries, f \in BookEntries}
           \cup {<< <<"4.0", "3">>, <<"2", "null">> >>}

BookAskChanges ==
    {<< <<"4.0", "6">> >>, << <<"6", "0">> >>, << <<"4", "0.0">>, <<"4", "1">> >>}

BookPayloads ==
    {[b |-> l, a |-> <<>>] : l \in BookBidChanges}
    \cup {[b |-> <<>>, a |-> l] : l \in BookAskChanges}

BookMessages ==
    {Diff(k, k, c.b, c.a) : k \in 1..MaxSeq, c \in BookPayloads} \cup {NotJson}

NextBook ==
    \/ NewAttempt
    \/ \E data \in BookSnapshots : FetchSnapshot(data)
    \/ FetchFails
    \/ Connect
    \/ ConnectFails
    \/ \E m \in BookMessages : Receive(m, MaxMids)
    \/ StreamClosed
    \/ StreamEnds
    \/ Backoff
    \/ SkipMessage
    \/ UpdateRaises
    \/ UpdateReturns

SpecBook == Init /\ [][NextBook]_vars

\* asyncio.sleep returns and the while loop goes round: a sleeping supervisor
\* wakes up and a supervisor at the top of the loop builds its MarketMaker
SpecLive == Init /\ [][NextQuote]_vars /\ WF_vars(Backoff) /\ WF_vars(NewAttempt)

(***************************************************************************)
(* Vocabulary of the properties.                                           *)
(***************************************************************************)
Book == <<bids, asks, last_update_id, first_processed>>

\* a depthUpdate is about to be processed
HandlingDiff == pc = "handle" /\ msg.e = "depthUpdate"

HasSeq(m) == "U" \in m.keys /\ "u" \in m.keys

IsGap(m, last) == m.U > last + 1
InOrder(m, last) == m.U <= last + 1 /\ last + 1 <= m.u
Behind(m, last) == m.U <= last + 1 /\ m.u < last + 1

\* what a change list asks for, read off the list itself: the last entry
\* naming a price decides, prices not named keep their levels
ChangedPrices(changes) == {FloatVal(changes[i][1]) : i \in 1..Len(changes)}

LastQty(changes, p) ==
    LET i == CHOOSE k \in 1..Len(changes) :
                 /\ FloatVal(changes[k][1]) = p
                 /\ \A j \in (k + 1)..Len(changes) : FloatVal(changes[j][1]) # p
    IN  FloatVal(changes[i][2])

Count(levels, l) == Cardinality({i \in 1..Len(levels) : levels[i] = l})

LevelsOf(levels) == {levels[i] : i \in 1..Len(levels)}

ChangesApplied(old, new, changes) ==
    /\ \A p \in ChangedPrices(changes) :
          IF LastQty(changes, p) = 0
          THEN \A i \in 1..Len(new) : new[i][1] # p
          ELSE \E i \in 1..Len(new) : new[i] = <<p, LastQty(changes, p)>>
    /\ \A l \in LevelsOf(old) \cup LevelsOf(new) :
          l[1] \notin ChangedPrices(changes) => Count(old, l) = Count(new, l)

\* one side is a price level set: strictly ordered prices, no zero quantity
SideOK(levels, side) ==
    /\ \A i \in 1..Len(levels) : levels[i][2] # 0
    /\ \A i, j \in 1..Len(levels) :
          i < j => IF side = "bids" THEN levels[i][1] > levels[j][1]
                                    ELSE levels[i][1] < levels[j][1]

(***************************************************************************)
(* C1.  In SYNCED, a diff with U > lastSequence + 1 raises the gap error   *)
(* carrying lastSequence and U, and bids, asks, lastSequence and the sync  *)
(* state stay as they were.                                                *)
(***************************************************************************)
C1_GapRaisedBookUntouched ==
    [][ (HandlingDiff /\ first_processed /\ "U" \in msg.keys
           /\ IsGap(msg, last_update_id))
        => /\ outcome' = "gap"
           /\ pc' = "sleep2"
           /\ err' = <<last_update_id, msg.U>>
           /\ Book' = Book ]_vars

C1_Witness ==
    /\ outcome = "gap"
    /\ first_processed
    /\ bids # <<>>
    /\ Len(err) = 2
    /\ err[1] = last_update_id
    /\ err[2] > last_update_id + 1

(***************************************************************************)
(* C2.  Whatever the state of a book that has its snapshot                 *)
(* (AWAITING_FIRST_DIFF or SYNCED), a diff with U > lastSequence + 1       *)
(* raises the gap signal to the supervisor and does not change the book.   *)
(***************************************************************************)
C2_GapAlwaysRaised ==
    [][ (HandlingDiff /\ "U" \in msg.keys /\ IsGap(msg, last_update_id))
        => /\ outcome' = "gap"
           /\ pc' = "sleep2"
           /\ Book' = Book ]_vars

(***************************************************************************)
(* C3.  In AWAITING_FIRST_DIFF a well-formed diff is accepted exactly when *)
(* U <= lastSequence + 1 <= u: then its changes are applied, lastSequence  *)
(* becomes u and the state becomes SYNCED; any other diff leaves bids,     *)
(* asks, lastSequence and the state unchanged.                             *)
(***************************************************************************)
C3_FirstDiffAccepted ==
    [][ (HandlingDiff /\ WellFormed(msg) /\ ~first_processed)
        => IF InOrder(msg, last_update_id)
           THEN /\ ChangesApplied(bids, bids', msg.b)
                /\ ChangesApplied(asks, asks', msg.a)
                /\ last_update_id' = msg.u
                /\ first_processed'
                /\ pc' = "stream"
           ELSE /\ Book' = Book
                /\ pc' = "stream" ]_vars

C3_Witness ==
    /\ outcome = "first"
    /\ first_processed
    /\ last_update_id > 1
    /\ bids # <<>>
    /\ asks # <<>>

(***************************************************************************)
(* C4.  In SYNCED a well-formed diff with U <= lastSequence + 1 <= u is    *)
(* applied and lastSequence becomes u; one with u < lastSequence + 1 is    *)
(* ignored: the book is unchanged and nothing is raised.                   *)
(***************************************************************************)
C4_SyncedDiff ==
    [][ (HandlingDiff /\ WellFormed(msg) /\ first_processed)
        => /\ InOrder(msg, last_update_id)
              => /\ ChangesApplied(bids, bids', msg.b)
                 /\ ChangesApplied(asks, asks', msg.a)
                 /\ last_update_id' = msg.u
                 /\ first_processed'
                 /\ outcome' = "applied"
                 /\ pc' = "stream"
           /\ Behind(msg, last_update_id)
              => /\ Book' = Book
                 /\ outcome' = "stale"
                 /\ pc' = "stream" ]_vars

C4_Witness ==
    /\ outcome = "applied"
    /\ first_processed
    /\ last_update_id = MaxSeq
    /\ bids # <<>>

(***************************************************************************)
(* C5.  After a snapshot and any diffs, each side has no two entries with  *)
(* the same price, no entry with quantity 0, and is sorted (bids           *)
(* descending, asks ascending).                                            *)
(***************************************************************************)
C5_SidesAreLevelSets ==
    pc \in {"connect", "stream"} => SideOK(bids, "bids") /\ SideOK(asks, "asks")

(***************************************************************************)
(* C6.  A diff that is in sequence but fails to parse is logged and        *)
(* skipped: the book is as before and the stream goes on (no reconnect).   *)
(***************************************************************************)
C6_MalformedSkipped ==
    [][ (HandlingDiff /\ ~WellFormed(msg)
           /\ (HasSeq(msg) => InOrder(msg, last_update_id)))
        => /\ Book' = Book
           /\ pc' = "stream" ]_vars

(***************************************************************************)
(* C7.  No mid-price or quote is computed from a book on which a diff was  *)
(* abandoned half way: once that has happened the book is not used again.  *)
(***************************************************************************)
C7_TornBookNeverUsed ==
    [][ (torn /\ pc = "handle")
        => /\ mid_prices' = mid_prices
           /\ quote' = <<>> ]_vars

(***************************************************************************)
(* C8.  A diff adds one value to the mid-price series exactly when it was  *)
(* applied and left both sides non-empty; a dropped, stale or side-        *)
(* emptying diff adds none.                                                *)
(***************************************************************************)
C8_OneMidPerAppliedDiff ==
    [][ pc = "handle"
        => IF outcome' \in {"first", "applied"} /\ bids' # <<>> /\ asks' # <<>>
           THEN Len(mid_prices') = Len(mid_prices) + 1
           ELSE mid_prices' = mid_prices ]_vars

C10_FreshAttempt ==
    pc = "fetch"
    => /\ bids = <<>>
       /\ asks = <<>>
       /\ last_update_id = None
       /\ ~first_processed
       /\ mid_prices = <<>>
       /\ spread = INITIAL_SPREAD

C10_Witness ==
    /\ pc = "fetch"
    /\ outcome = "gap"
    /\ mid_prices = <<>>
    /\ bids = <<>>

(***************************************************************************)
(* C11.  The supervisor never gives up: a sequence gap, a closed           *)
(* connection, a failed snapshot fetch or any other error of an attempt    *)
(* puts it into a backoff sleep, and every sleep is followed by a new      *)
(* attempt at its snapshot fetch; nothing counts the retries.              *)
(***************************************************************************)
Failures ==
    {"gap", "valueerror", "closed", "fetch_failed", "connect_failed", "snapshot_error"}

Sleeping == pc \in {"sleep2", "sleep5"}

C12_SecondSnapshotRefused ==
    [][ (pc = "stream" /\ pc' = "stream" /\ outcome' = "resnapshot")
        => Book' = Book ]_vars

(***************************************************************************)
(* C13.  Once the snapshot is applied, lastSequence never decreases over   *)
(* the process_update calls made on that book, whatever their outcome.     *)
(***************************************************************************)
C13_CursorNeverDecreases ==
    [][ (last_update_id # None /\ pc # "loop")
        => last_update_id' >= last_update_id ]_vars

C13_Witness ==
    /\ outcome = "stale"
    /\ first_processed
    /\ last_update_id = MaxSeq

(***************************************************************************)
(* C14.  Batching independence: for gap-free diffs after a snapshot the    *)
(* final bids and asks equal the snapshot plus the concatenation of the    *)
(* change lists, however the changes were split into messages.  Stated on  *)
(* the diff being handled: cutting its change list at any point into two   *)
(* consecutive diffs gives the same side as applying it whole.             *)
(***************************************************************************)
Prefix(s, k) == SubSeq(s, 1, k)
Suffix(s, k) == SubSeq(s, k + 1, Len(s))

SplitApplied(levels, changes, side, k) ==
    ApplySide(ApplySide(levels, Prefix(changes, k), side).levels,
              Suffix(changes, k), side).levels

SplitIndependent(levels, changes, side) ==
    \A k \in 0..Len(changes) :
        SplitApplied(levels, changes, side, k) = ApplySide(levels, changes, side).levels

C14_BatchingIndependent ==
    (HandlingDiff /\ WellFormed(msg) /\ last_update_id # None
                  /\ InOrder(msg, last_update_id))
        => /\ SplitIndependent(bids, msg.b, "bids")
           /\ SplitIndependent(asks, msg.a, "asks")

(***************************************************************************)
(* C15.  The spread is always within [MIN_SPREAD, MAX_SPREAD]:             *)
(* update_spread(v) is in that range for every non-negative v and is       *)
(* non-decreasing in v, and the spread field is in that range in every     *)
(* reachable state, before the first estimate too.                         *)
(***************************************************************************)
\* volatilities around both clamps (units of 1/3000)
VolSamples == {0, 1, 999, 1000, 1001, 2000, 9999, 10000, 10001, 12000, 1000000}

InRange(sp) == MIN_SPREAD <= sp /\ sp <= MAX_SPREAD

C15_SpreadInRange ==
    /\ InRange(spread)
    /\ \A v \in VolSamples : InRange(update_spread(v))
    /\ \A v, w \in VolSamples : v <= w => update_spread(v) <= update_spread(w)

C15_Witness ==
    /\ Len(quote) = 1
    /\ spread = MAX_SPREAD
    /\ quote[1].spread = MAX_SPREAD

(***************************************************************************)
(* C16.  Removing a price that is absent from its side leaves that side    *)
(* as it was, same entries in the same order, and the other side too.      *)
(***************************************************************************)
AbsentRemovals(levels, changes) ==
    \A i \in 1..Len(changes) :
        /\ FloatVal(changes[i][2]) = 0
        /\ ~HasPrice(levels, FloatVal(changes[i][1]))

C16_RemoveAbsentNoOp ==
    [][ ( /\ HandlingDiff /\ WellFormed(msg)
          /\ Len(msg.b) + Len(msg.a) > 0
          /\ AbsentRemovals(bids, msg.b)
          /\ AbsentRemovals(asks, msg.a)
          /\ outcome' \in {"first", "applied"} )
        => (bids' = bids /\ asks' = asks) ]_vars

(***************************************************************************)
(* C17.  A price named more than once in one change list: the last entry   *)
(* wins.  After the diff the price is absent if its last quantity is 0,    *)
(* otherwise present exactly once with the last entry's quantity.          *)
(***************************************************************************)
TimesNamed(changes, p) ==
    Cardinality({i \in 1..Len(changes) : FloatVal(changes[i][1]) = p})

LastWins(new, changes) ==
    \A p \in ChangedPrices(changes) :
        TimesNamed(changes, p) > 1 =>
            IF LastQty(changes, p) = 0
            THEN ~HasPrice(new, p)
            ELSE /\ Cardinality({i \in 1..Len(new) : new[i][1] = p}) = 1
                 /\ \E i \in 1..Len(new) : new[i] = <<p, LastQty(changes, p)>>

C17_LastEntryWins ==
    [][ (HandlingDiff /\ WellFormed(msg) /\ outcome' \in {"first", "applied"})
        => (LastWins(bids', msg.b) /\ LastWins(asks', msg.a)) ]_vars

(***************************************************************************)
(* C18.  Level updates are idempotent: the change list of the diff being   *)
(* handled, applied twice in a row, leaves the same bids and asks as       *)
(* applied once.                                                           *)
(***************************************************************************)
TwiceIsOnce(levels, changes, side) ==
    ApplySide(ApplySide(levels, changes, side).levels, changes, side).levels
        = ApplySide(levels, changes, side).levels

C18_Idempotent ==
    (HandlingDiff /\ WellFormed(msg) /\ last_update_id # None)
        => /\ TwiceIsOnce(bids, msg.b, "bids")
           /\ TwiceIsOnce(asks, msg.a, "asks")

(***************************************************************************)
(* C19.  The sync state of one MarketMaker only moves forward: once the    *)
(* first diff has been accepted, no diff, stale message, malformed message *)
(* or error makes it await a first diff or a snapshot again; only the      *)
(* supervisor building a new MarketMaker does.                             *)
(***************************************************************************)
Synced == first_processed /\ last_update_id # None

C19_SyncOnlyForward ==
    [][ (Synced /\ ~Synced') => (pc = "loop" /\ pc' = "fetch") ]_vars

C19_Witness ==
    /\ Synced
    /\ outcome = "logged"
    /\ pc = "stream"

(***************************************************************************)
(* C20.  Every emitted quote uses a spread recomputed in the same step     *)
(* from the current attempt's volatility window, and the best bid and best *)
(* ask of a SYNCED book with both sides non-empty; the value               *)
(* INITIAL_SPREAD never appears in an emitted quote.                       *)
(***************************************************************************)
QuoteEmitted == pc = "handle" /\ Len(quote') = 1

FreshSpreads == {update_spread(v) : v \in VolOutcomes(LastWindow(mid_prices'))}

QuoteIsFresh ==
    /\ Len(mid_prices') = Len(mid_prices) + 1
    /\ spread' \in FreshSpreads
    /\ quote'[1].spread = spread'
    /\ Synced'
    /\ bids' # <<>> /\ asks' # <<>>
    /\ quote'[1].best_bid = bids'[1][1]
    /\ quote'[1].best_ask = asks'[1][1]
    /\ quote'[1].mid = Mid(bids', asks')

C20_QuoteNeverInitialSpread ==
    [][ QuoteEmitted => (QuoteIsFresh /\ quote'[1].spread # INITIAL_SPREAD) ]_vars

(***************************************************************************)
(* C20, amended.  Every emitted quote uses a spread recomputed in the same *)
(* step from the current attempt's volatility window, and the best bid and *)
(* best ask of a SYNCED book with both sides non-empty.  The recomputed    *)
(* spread may have the value of INITIAL_SPREAD (volatility 2/3).           *)
(***************************************************************************)
C20_QuoteSpreadRecomputed ==
    [][ QuoteEmitted => QuoteIsFresh ]_vars

C20_Witness ==
    /\ Len(quote) = 1
    /\ quote[1].spread = INITIAL_SPREAD
    /\ Len(mid_prices) = 22

====
